---- MODULE Spec2Model ----
(***************************************************************************)
(* State-machine model of the AI Insights backend:                         *)
(*   - the persisted FileRecord table (app/core/database.py),              *)
(*   - the HTTP endpoints upload / process / insights / status,            *)
(*   - the background run InsightService.generate_insights_with_progress,  *)
(*   - the ConnectionManager hub (app/core/websocket_manager.py) and the   *)
(*     websocket endpoint that feeds it.                                   *)
(* Everything runs on one asyncio event loop: code between two awaits that *)
(* really suspend is atomic.  The variable loop names the run that holds   *)
(* the event loop in the middle of such a segment (0: the loop is free).   *)
(* Confidences are in hundredths (0.95 is 95).                             *)
(***************************************************************************)
EXTENDS Integers, Sequences, FiniteSets, TLC

\* ------------------------------------------------------------------ bounds
\* Spec: the background tasks process_file may start, the WebSocket clients.
MaxRuns == 1
NumSockets == 2
\* SpecApi: the same, for the HTTP view of overlapping runs.
ApiRuns == 2
ApiSockets == 1
\* SpecSelect: the longest list of gathered insights handed to the selection.
SelLen == 7
\* SpecQuality: the most columns of a dataset handed to the quality stage.
QCols == 2
\* pings a client sends on one connection
MaxPings == 1

Max(a, b) == IF a > b THEN a ELSE b

ApiSocketIds == (NumSockets + 1)..(NumSockets + ApiSockets)

RunIds == 1..Max(MaxRuns, ApiRuns)
Sockets == 1..(NumSockets + ApiSockets)
FileIds == {"f1"}

\* The clients whose incoming messages are recorded (received). Every client
\* behaves the same, recorded or not.
Observed == {1}

\* ------------------------------------------------------- program constants
max_insights == 5
min_confidence_score == 10
total_steps == 6

None == "None"

\* A JSON column or a return value: NULL / not there yet, or a list.
Unset == [set |-> FALSE, list |-> << >>]

List(l) == [set |-> TRUE, list |-> l]

\* ----------------------------------------------------------------- datasets
\* A parsed DataFrame, reduced to what the analysers read: the row count, the
\* per-column missing count, the per-numeric-column variability and outlier
\* facts, the pairwise correlations (hundredths) and the duplicate-row count.
NoDf == [rows |-> 0, missing |-> << >>, highvar |-> << >>, outliers |-> << >>,
         corr |-> << >>, dupes |-> 0]

\* value1,value2 / 10,20 / 30,40 / 50,60  (tests/test_endpoints.py)
DfTest == [rows |-> 3, missing |-> <<0, 0>>, highvar |-> <<TRUE, FALSE>>,
           outliers |-> <<0, 0>>, corr |-> <<100>>, dupes |-> 0]

\* 10 rows, a column with 2 missing values, one duplicated row, no numerics
DfDirty == [rows |-> 10, missing |-> <<2>>, highvar |-> << >>,
            outliers |-> << >>, corr |-> << >>, dupes |-> 1]

Datasets == {DfTest, DfDirty}

\* ----------------------------------------------------------------- insights
\* detail holds the figures the description reports, where a claim reads them.
Insight(title, col, confidence, category) ==
    [title |-> title, col |-> col, confidence |-> confidence, category |-> category,
     detail |-> << >>]

Abs(x) == IF x < 0 THEN -x ELSE x

Min(a, b) == IF a < b THEN a ELSE b

RECURSIVE FlatMap(_, _, _)
\* Concatenation of F(i) for i = lo..hi, in order.
FlatMap(F(_), lo, hi) == IF lo > hi THEN << >> ELSE F(lo) \o FlatMap(F, lo + 1, hi)

\* An overview stage that emits nothing.
_generate_no_overview(df) == << >>

_generate_overview_insights(df) ==
    << Insight("Dataset Overview", 0, 95, "overview") >>

_generate_statistical_insights(df) ==
    LET PerCol(c) ==
            (IF df.highvar[c] THEN << Insight("High Variability", c, 80, "statistical") >>
                              ELSE << >>)
         \o (IF df.outliers[c] > 0 THEN << Insight("Outliers Detected", c, 75, "anomaly") >>
                                   ELSE << >>)
    IN  FlatMap(PerCol, 1, Len(df.highvar))

_generate_pattern_insights(df) ==
    LET PerPair(p) ==
            IF Abs(df.corr[p]) > 70
            THEN << Insight(IF df.corr[p] > 0 THEN "Strong Positive Correlation"
                                              ELSE "Strong Negative Correlation",
                            p, Min(90, Abs(df.corr[p])), "pattern") >>
            ELSE << >>
    IN  IF Len(df.highvar) > 1 THEN FlatMap(PerPair, 1, Len(df.corr)) ELSE << >>

\* ---------------------------------------------------------------------------
\* Binary floating point, as Python's float computes (cnt / total) * 100 and
\* as f"{pct:.1f}" prints it (insight_service.py 273-280).  A mantissa is a
\* natural number written as a sequence of limbs, most significant first.
\* ---------------------------------------------------------------------------
\* the mantissa of a double holds 53 bits
MantissaBits == 53
\* a limb holds 9 bits, so that six limbs are the 54 bits of a quotient
LimbBits == 9
Limb == 512
QuotLimbs == 6

RECURSIVE Pow2(_)
Pow2(n) == IF n = 0 THEN 1 ELSE 2 * Pow2(n - 1)

RECURSIVE StripZeros(_)
\* the same number without leading zero limbs
StripZeros(s) == IF s # << >> /\ s[1] = 0 THEN StripZeros(Tail(s)) ELSE s

RECURSIVE ValueOf(_)
\* the number a (short) limb sequence writes
ValueOf(s) == IF s = << >> THEN 0 ELSE Limb * ValueOf(SubSeq(s, 1, Len(s) - 1)) + s[Len(s)]

\* the number of bits of a number
BitLen(s) ==
    LET u == StripZeros(s)
    IN  IF u = << >> THEN 0
        ELSE (Len(u) - 1) * LimbBits + Cardinality({k \in 0..(LimbBits - 1) : Pow2(k) <= u[1]})

RECURSIVE Inc(_)
\* s + 1
Inc(s) ==
    IF s = << >> THEN << 1 >>
    ELSE IF s[Len(s)] < Limb - 1 THEN SubSeq(s, 1, Len(s) - 1) \o << s[Len(s)] + 1 >>
    ELSE Inc(SubSeq(s, 1, Len(s) - 1)) \o << 0 >>

RECURSIVE MulSmall(_, _, _)
\* s * k + carry, for a small k
MulSmall(s, k, carry) ==
    IF s = << >> THEN (IF carry = 0 THEN << >> ELSE << carry >>)
    ELSE LET v == s[Len(s)] * k + carry
         IN  MulSmall(SubSeq(s, 1, Len(s) - 1), k, v \div Limb) \o << v % Limb >>

RECURSIVE DivSmall(_, _, _)
\* the quotient of (r, s) by a small k, r the remainder carried in
DivSmall(s, k, r) ==
    IF s = << >> THEN << >>
    ELSE LET v == r * Limb + s[1]
         IN  << v \div k >> \o DivSmall(Tail(s), k, v % k)

RECURSIVE ModSmall(_, _, _)
\* the remainder of that division
ModSmall(s, k, r) ==
    IF s = << >> THEN r ELSE ModSmall(Tail(s), k, (r * Limb + s[1]) % k)

\* the limbs of s that remain when its low n bits are cut by whole limbs
UpperLimbs(s, n) ==
    IF n \div LimbBits >= Len(s) THEN << >> ELSE SubSeq(s, 1, Len(s) - n \div LimbBits)

\* s \div 2^n
ShiftRight(s, n) == DivSmall(UpperLimbs(s, n), Pow2(n % LimbBits), 0)

\* some of the low n bits of s is set
LowBitsSet(s, n) ==
    \/ \E i \in 1..Len(s) : i > Len(s) - n \div LimbBits /\ s[i] # 0
    \/ ModSmall(UpperLimbs(s, n), Pow2(n % LimbBits), 0) # 0

IsOdd(s) == s # << >> /\ s[Len(s)] % 2 = 1

\* s / 2^n rounded to the nearest natural number, a tie to the even one;
\* sticky: the exact value has non-zero bits below those of s
HalfEven(s, n, sticky) ==
    IF n = 0 THEN s
    ELSE LET m  == ShiftRight(s, n)
             up == /\ IsOdd(ShiftRight(s, n - 1))
                   /\ (sticky \/ LowBitsSet(s, n - 1) \/ IsOdd(m))
         IN  IF up THEN Inc(m) ELSE m

\* Round a mantissa to MantissaBits bits, ties to even: the rounded mantissa
\* and the number of bits dropped.
RoundBits(s, sticky) ==
    LET d == BitLen(s) - MantissaBits
    IN  IF d <= 0 THEN [m |-> s, dropped |-> 0]
        ELSE [m |-> HalfEven(s, d, sticky), dropped |-> d]

RECURSIVE LeadZeros(_, _)
\* the number of zero bits that open the binary expansion of r / t, 0 < r < t
LeadZeros(r, t) == IF 2 * r >= t THEN 0 ELSE 1 + LeadZeros(2 * r, t)

RECURSIVE DivLimbs(_, _, _)
\* the first n limbs of the expansion of r / t, r < t
DivLimbs(r, t, n) ==
    IF n = 0 THEN << >>
    ELSE << (r * Limb) \div t >> \o DivLimbs((r * Limb) % t, t, n - 1)

RECURSIVE DivRem(_, _, _)
\* the remainder left after those n limbs
DivRem(r, t, n) == IF n = 0 THEN r ELSE DivRem((r * Limb) % t, t, n - 1)

\* f"{(cnt / total) * 100:.1f}" in tenths of a percent, 0 <= cnt <= total:
\* the quotient rounded to a double, its product with 100 rounded to a
\* double, and that double rounded to one decimal, each tie to even.
PercentTenths(cnt, total) ==
    IF cnt = 0 THEN 0
    ELSE IF cnt = total THEN 1000
    ELSE LET z  == LeadZeros(cnt, total)
             r0 == cnt * Pow2(z)
             \* cnt / total = q.m / 2^qe
             q  == RoundBits(DivLimbs(r0, total, QuotLimbs),
                             DivRem(r0, total, QuotLimbs) # 0)
             qe == z + QuotLimbs * LimbBits - q.dropped
             \* pct = p.m / 2^pe
             p  == RoundBits(MulSmall(q.m, 100, 0), FALSE)
             pe == qe - p.dropped
         IN  ValueOf(HalfEven(MulSmall(p.m, 10, 0), pe, FALSE))

\* f"{cnt} missing values ({pct:.1f}% of total)": the count, and the printed
\* percentage in tenths of a percent.
MissingReport(cnt, total) == << cnt, PercentTenths(cnt, total) >>

\* A quality stage that takes "10% or more" for "more than 10%".
_generate_quality_insights_from10(df) ==
    LET PerCol(c) ==
            IF df.missing[c] > 0 /\ df.missing[c] * 100 >= 10 * df.rows
            THEN << [Insight("Missing Data", c, 90, "data_quality")
                        EXCEPT !.detail = MissingReport(df.missing[c], df.rows)] >>
            ELSE << >>
    IN  FlatMap(PerCol, 1, Len(df.missing))
     \o (IF df.dupes > 0 THEN << Insight("Duplicate Rows Detected", 0, 95, "data_quality") >>
                         ELSE << >>)

_generate_quality_insights(df) ==
    LET PerCol(c) ==
            \* pct = cnt / total * 100; pct > 10 (the double pct is above 10
            \* exactly when the ratio is above a tenth: a tenth itself gives 10.0)
            IF df.missing[c] > 0 /\ df.missing[c] * 100 > 10 * df.rows
            THEN << [Insight("Missing Data", c, 90, "data_quality")
                        EXCEPT !.detail = MissingReport(df.missing[c], df.rows)] >>
            ELSE << >>
    IN  FlatMap(PerCol, 1, Len(df.missing))
     \o (IF df.dupes > 0 THEN << Insight("Duplicate Rows Detected", 0, 95, "data_quality") >>
                         ELSE << >>)

\* ------------------------------------------------- filter, sort and trim
RECURSIVE FilterConfidenceStrict(_)
\* A filter that also drops an insight exactly at the threshold.
FilterConfidenceStrict(s) ==
    IF s = << >> THEN << >>
    ELSE (IF Head(s).confidence > min_confidence_score THEN << Head(s) >> ELSE << >>)
         \o FilterConfidenceStrict(Tail(s))

RECURSIVE FilterConfidence(_)
\* [i for i in insights if i.confidence >= settings.min_confidence_score]
FilterConfidence(s) ==
    IF s = << >> THEN << >>
    ELSE (IF Head(s).confidence >= min_confidence_score THEN << Head(s) >> ELSE << >>)
         \o FilterConfidence(Tail(s))

RECURSIVE InsertDescStrict(_, _)
\* An insertion that puts x before the elements of equal confidence.
InsertDescStrict(x, s) ==
    IF s = << >> THEN << x >>
    ELSE IF Head(s).confidence > x.confidence
         THEN << Head(s) >> \o InsertDescStrict(x, Tail(s))
         ELSE << x >> \o s

RECURSIVE InsertDesc(_, _)
\* x goes after every element whose confidence is >= its own: list.sort is
\* stable, also with reverse=True.
InsertDesc(x, s) ==
    IF s = << >> THEN << x >>
    ELSE IF Head(s).confidence >= x.confidence
         THEN << Head(s) >> \o InsertDesc(x, Tail(s))
         ELSE << x >> \o s

RECURSIVE InsertAsc(_, _)
InsertAsc(x, s) ==
    IF s = << >> THEN << x >>
    ELSE IF Head(s).confidence <= x.confidence
         THEN << Head(s) >> \o InsertAsc(x, Tail(s))
         ELSE << x >> \o s

RECURSIVE SortAsc(_)
SortAsc(s) ==
    IF s = << >> THEN << >>
    ELSE InsertAsc(s[Len(s)], SortAsc(SubSeq(s, 1, Len(s) - 1)))

\* A descending sort made of a stable ascending sort and a reversal: insights
\* of equal confidence come out in reverse order.
SortAscReversed(s) ==
    LET a == SortAsc(s) IN [i \in 1..Len(a) |-> a[Len(a) + 1 - i]]

RECURSIVE SortDesc(_)
\* filtered.sort(key=lambda x: x.confidence, reverse=True)
SortDesc(s) ==
    IF s = << >> THEN << >>
    ELSE InsertDesc(s[Len(s)], SortDesc(SubSeq(s, 1, Len(s) - 1)))

Trim(s) == SubSeq(s, 1, Min(Len(s), max_insights))

FinalInsights(insights) == Trim(SortDesc(FilterConfidence(insights)))


\* ------------------------------------------------------------------- state
VARIABLES
    files,               \* table "files": id -> FileRecord columns, or NoRecord
    uploads,             \* the dataset stored at FileRecord.filepath
    active_connections,  \* ConnectionManager.active_connections: file_id -> set
    ws,                  \* per WebSocket: position of websocket_endpoint
    received,            \* per WebSocket: the messages delivered to the client
    runs,                \* per background task: generate_insights_with_progress
    loop,                \* the run executing between two suspensions, or 0
    resp                 \* the HTTP response of the step just taken, if any

vars == << files, uploads, active_connections, ws, received, runs, loop, resp >>

Record(status, insights) ==
    [exists |-> TRUE, processing_status |-> status, insights |-> insights]

NoRecord == [exists |-> FALSE, processing_status |-> None, insights |-> Unset]

NoResp == [op |-> "none", code |-> 0, status |-> "none", total |-> 0]

Resp(op, code, status, total) == [op |-> op, code |-> code, status |-> status, total |-> total]

\* ---------------------------------------------------------------- messages
\* run is not a field of the payload: it names the run that issued the message.
Message(type, file_id, status, message, total, step, found, count, progress, run) ==
    [type |-> type, file_id |-> file_id, status |-> status, message |-> message,
     total_steps |-> total, current_step_num |-> step, insights_found |-> found,
     insights_count |-> count, progress |-> progress, run |-> run]

\* ConnectionManager.send_status_update
StatusUpdate(file_id, status, message, run) ==
    Message("status_update", file_id, status, message, 0, 0, 0, 0, 0, run)

\* ConnectionManager.send_insight_progress; progress is the integer part of
\* current_step_num / total_steps * 100
InsightProgress(file_id, current_step, total, current_step_num, insights_found, run) ==
    Message("insight_progress", file_id, "none", current_step, total, current_step_num,
            insights_found, 0, (current_step_num * 100) \div total, run)

\* ConnectionManager.send_insights_complete
InsightsComplete(file_id, insights_count, run) ==
    Message("insights_complete", file_id, "completed", "Analysis complete", 0, 0, 0,
            insights_count, 100, run)

ConnectionEstablished(file_id) ==
    Message("connection_established", file_id, "none", "Connected to real-time updates",
            0, 0, 0, 0, 0, 0)

\* The answer of the endpoint to a client's ping.
Pong(file_id) == Message("pong", file_id, "none", "none", 0, 0, 0, 0, 0, 0)

NoMessage == Message("none", None, "none", "none", 0, 0, 0, 0, 0, 0)

\* No broadcast in progress.
NoBc == [msg |-> NoMessage, orig |-> {}, size |-> 0, seen |-> {}, stale |-> FALSE,
         failed |-> {}, conn |-> 0]

IdleRun == [pc |-> "idle", file_id |-> None, loaded |-> NoRecord, expired |-> FALSE,
            df |-> NoDf, insights |-> << >>, final |-> << >>, exc |-> None,
            bc |-> NoBc, result |-> Unset]

Init ==
    /\ files = [f \in FileIds |-> NoRecord]
    /\ uploads = [f \in FileIds |-> NoDf]
    /\ active_connections = << >>
    /\ ws = [w \in Sockets |-> [pc |-> "new", file_id |-> None, alive |-> FALSE, pings |-> 0]]
    /\ received = [w \in Observed |-> << >>]
    /\ runs = [r \in RunIds |-> IdleRun]
    /\ loop = 0
    /\ resp = NoResp

\* -------------------------------------------------------- the run's labels
\* A label is the source line of the statement the run executes next.
BroadcastLabels == {"L34", "L45", "L53", "L63", "L74", "L82", "L91", "L102", "L113",
                    "L134", "L151"}

\* Inside the try block: an exception goes to the except clause at line 143.
TryLabels == {"L45", "L53", "L59", "L63", "L74", "L80", "L82", "L91", "L98", "L102",
              "L109", "L113", "L120", "L124", "L134", "L141"}

\* Statements reached through an await asyncio.sleep(...): the run has
\* released the event loop before it executes them.
SleepBefore == {"L63", "L74", "L80", "L98", "L109", "L120"}

\* The message a broadcast statement sends.
MessageAt(r, run) ==
    CASE run.pc = "L34"  -> StatusUpdate(run.file_id, "failed", "File not found; aborting insights", r)
      [] run.pc = "L45"  -> StatusUpdate(run.file_id, "processing", "Starting analysis...", r)
      [] run.pc = "L53"  -> InsightProgress(run.file_id, "Parsing dataset", total_steps, 1, 0, r)
      [] run.pc = "L63"  -> InsightProgress(run.file_id, "Validating data structure", total_steps, 2, 0, r)
      [] run.pc = "L74"  -> InsightProgress(run.file_id, "Analyzing dataset overview", total_steps, 3, 0, r)
      [] run.pc = "L82"  -> InsightProgress(run.file_id, "Analyzing dataset overview", total_steps, 3, Len(run.insights), r)
      [] run.pc = "L91"  -> InsightProgress(run.file_id, "Performing statistical analysis", total_steps, 4, Len(run.insights), r)
      [] run.pc = "L102" -> InsightProgress(run.file_id, "Detecting patterns and correlations", total_steps, 5, Len(run.insights), r)
      [] run.pc = "L113" -> InsightProgress(run.file_id, "Evaluating data quality", total_steps, 6, Len(run.insights), r)
      [] run.pc = "L134" -> InsightsComplete(run.file_id, Len(run.final), r)
      [] run.pc = "L151" -> StatusUpdate(run.file_id, "failed", run.exc, r)

\* The statement after a broadcast statement.
After(label) ==
    CASE label = "L34"  -> "L41"
      [] label = "L45"  -> "L53"
      [] label = "L53"  -> "L59"
      [] label = "L63"  -> "L74"
      [] label = "L74"  -> "L80"
      [] label = "L82"  -> "L91"
      [] label = "L91"  -> "L98"
      [] label = "L102" -> "L109"
      [] label = "L113" -> "L120"
      [] label = "L134" -> "L141"
      [] label = "L151" -> "L158"

\* Who holds the event loop once run r stands before label.
Holder(r, label) == IF label \in SleepBefore THEN 0 ELSE r

\* An exception e raised by the statement at run.pc: caught by the except
\* clause when the statement is inside the try block, else it leaves
\* generate_insights_with_progress.
Raised(run, e) ==
    IF run.pc \in TryLabels
    THEN [run EXCEPT !.pc = "L146", !.exc = e, !.bc = NoBc]
    ELSE [run EXCEPT !.pc = "raised", !.exc = e, !.bc = NoBc]

HolderAfterRaise(r, run) == IF run.pc \in TryLabels THEN r ELSE 0


\* ---------------------------------------------------------------- the hub
Registered(f) == IF f \in DOMAIN active_connections THEN active_connections[f] ELSE {}

\* dict with key f set to v
WithKey(d, f, v) == [k \in DOMAIN d \cup {f} |-> IF k = f THEN v ELSE d[k]]

\* dict with key f deleted
WithoutKey(d, f) == [k \in DOMAIN d \ {f} |-> d[k]]

\* A disconnect that drops the whole entry of the subject.
disconnectSubject(conns, w, f) ==
    IF f \in DOMAIN conns THEN WithoutKey(conns, f) ELSE conns

\* ConnectionManager.disconnect
disconnect(conns, w, f) ==
    IF f \in DOMAIN conns
    THEN IF conns[f] \ {w} = {} THEN WithoutKey(conns, f)
                                ELSE [conns EXCEPT ![f] = @ \ {w}]
    ELSE conns

\* A send that reaches every client.
DeliverAll(w, msg) == [v \in Observed |-> Append(received[v], msg)]

\* send_text succeeded: the client has the message.
Deliver(w, msg) ==
    IF w \in Observed THEN [received EXCEPT ![w] = Append(@, msg)] ELSE received

\* The outcome of websocket.send_text: it raises on a socket the server has
\* closed and on a connection whose client is gone.
SendOk(w) == ws[w].alive /\ ws[w].pc # "aborted"

\* The set iterator of "for connection in self.active_connections[file_id]",
\* suspended in "await connection.send_text" for conn.
Iterating(msg, set, conn) ==
    [msg |-> msg, orig |-> set, size |-> Cardinality(set), seen |-> {conn},
     stale |-> FALSE, failed |-> {}, conn |-> conn]

\* A run's broadcasts that iterate the set of file f see the set object die
\* when disconnect deletes the entry of f.
MarkStale(rs, f) ==
    [r \in RunIds |->
        IF rs[r].bc # NoBc /\ rs[r].bc.msg.file_id = f
        THEN [rs[r] EXCEPT !.bc.stale = TRUE] ELSE rs[r]]

\* ------------------------------------------------------ websocket_endpoint
\* A client opens /ws/{file_id}: the record is looked up; an unknown id is
\* closed with 4004, else accept is awaited. A lookup that raises anything
\* but ValueError (ok = FALSE: the storage fails) reaches the outer handler,
\* which closes with 1011: nothing is accepted or registered.
WsOpen(w, f) ==
    /\ loop = 0
    /\ ws[w].pc = "new"
    /\ \E ok \in BOOLEAN :
          ws' = [ws EXCEPT ![w] = [pc |-> IF ~ok THEN "aborted"
                                          ELSE IF files[f] = NoRecord THEN "rejected"
                                          ELSE "accepting",
                                   file_id |-> f, alive |-> TRUE, pings |-> 0]]
    /\ resp' = NoResp
    /\ UNCHANGED << files, uploads, active_connections, received, runs, loop >>

\* The client goes away (closes, or the connection breaks): from now on a
\* send to it raises and its receive raises WebSocketDisconnect.
ClientDrop(w) ==
    /\ loop = 0
    /\ ws[w].pc \in {"accepting", "acking", "receiving", "ponging"}
    /\ ws[w].alive
    /\ ws' = [ws EXCEPT ![w].alive = FALSE]
    /\ resp' = NoResp
    /\ UNCHANGED << files, uploads, active_connections, received, runs, loop >>

\* ConnectionManager.connect after accept: the handle is added and the
\* acknowledgement is on its way; a failed accept ends the endpoint (1011).
WsConnect(w) ==
    /\ loop = 0
    /\ ws[w].pc = "accepting"
    /\ IF ws[w].alive
       THEN /\ active_connections' =
                   WithKey(active_connections, ws[w].file_id, Registered(ws[w].file_id) \cup {w})
            /\ ws' = [ws EXCEPT ![w].pc = "acking"]
       ELSE /\ ws' = [ws EXCEPT ![w].pc = "aborted"]
            /\ UNCHANGED active_connections
    /\ resp' = NoResp
    /\ UNCHANGED << files, uploads, received, runs, loop >>

\* send_personal_message of connect returns; a failure is logged, not raised.
WsAck(w) ==
    /\ loop = 0
    /\ ws[w].pc = "acking"
    /\ received' = IF SendOk(w) THEN Deliver(w, ConnectionEstablished(ws[w].file_id))
                                ELSE received
    /\ ws' = [ws EXCEPT ![w].pc = "receiving"]
    /\ resp' = NoResp
    /\ UNCHANGED << files, uploads, active_connections, runs, loop >>

\* receive_text returns {"type": "ping"}: send_personal_message is awaited
\* with the pong, and the endpoint is suspended in its send_text.
WsPing(w) ==
    /\ loop = 0
    /\ ws[w].pc = "receiving"
    /\ ws[w].alive
    /\ ws[w].pings < MaxPings
    /\ ws' = [ws EXCEPT ![w].pc = "ponging", ![w].pings = @ + 1]
    /\ resp' = NoResp
    /\ UNCHANGED << files, uploads, active_connections, received, runs, loop >>

\* send_personal_message of the pong returns; a failure is logged, not
\* raised, and the endpoint is back in receive_text.
WsPong(w) ==
    /\ loop = 0
    /\ ws[w].pc = "ponging"
    /\ received' = IF SendOk(w) THEN Deliver(w, Pong(ws[w].file_id)) ELSE received
    /\ ws' = [ws EXCEPT ![w].pc = "receiving"]
    /\ resp' = NoResp
    /\ UNCHANGED << files, uploads, active_connections, runs, loop >>

\* receive_text raises WebSocketDisconnect: manager.disconnect
WsDisconnect(w) ==
    /\ loop = 0
    /\ ws[w].pc = "receiving"
    /\ ~ws[w].alive
    /\ active_connections' = disconnect(active_connections, w, ws[w].file_id)
    /\ runs' = IF ws[w].file_id \in DOMAIN active_connections'
               THEN runs ELSE MarkStale(runs, ws[w].file_id)
    /\ ws' = [ws EXCEPT ![w].pc = "closed"]
    /\ resp' = NoResp
    /\ UNCHANGED << files, uploads, received, loop >>

\* The receive loop raises anything else (receive_text on a binary frame):
\* the outer handler closes with 1011 and does not call disconnect.
WsError(w) ==
    /\ loop = 0
    /\ ws[w].pc = "receiving"
    /\ ws[w].alive
    /\ ws' = [ws EXCEPT ![w].pc = "aborted"]
    /\ resp' = NoResp
    /\ UNCHANGED << files, uploads, active_connections, received, runs, loop >>

\* -------------------------------------------------------- broadcast_to_file
\* A lookup that makes the entry it does not find (dict.setdefault).
AfterLookupCreated(conns, f) ==
    WithKey(conns, f, IF f \in DOMAIN conns THEN conns[f] ELSE {})

\* Lines 50-51: "if file_id not in self.active_connections: return" tests
\* membership and leaves the dict as it is.
AfterLookup(conns, f) == conns

\* A run calls send_status_update / send_insight_progress /
\* send_insights_complete: up to the first await of send_text, or to the
\* return when there is nothing to iterate.
BroadcastCall(r) ==
    /\ loop \in {0, r}
    /\ runs[r].pc \in BroadcastLabels
    /\ runs[r].bc = NoBc
    /\ LET run == runs[r]
           msg == MessageAt(r, run)
           f   == run.file_id
       IN  /\ IF Registered(f) = {}
              THEN /\ runs' = [runs EXCEPT ![r].pc = After(run.pc)]
                   /\ loop' = Holder(r, After(run.pc))
              ELSE /\ \E c \in active_connections[f] :
                         runs' = [runs EXCEPT ![r].bc = Iterating(msg, active_connections[f], c)]
                   /\ loop' = 0
           /\ active_connections' = AfterLookup(active_connections, f)
    /\ resp' = NoResp
    /\ UNCHANGED << files, uploads, ws, received >>

\* The pending send_text returns or raises, and the loop goes on: to the next
\* connection's send, to RuntimeError "Set changed size during iteration", or
\* to the clean-up of the failed connections and the return.
BroadcastStep(r) ==
    /\ loop = 0
    /\ runs[r].bc # NoBc
    /\ LET run == runs[r]
           bc  == run.bc
           f   == bc.msg.file_id
       IN  LET ok     == SendOk(bc.conn)
               failed == IF ok THEN bc.failed ELSE bc.failed \cup {bc.conn}
           IN  /\ received' = IF ok THEN [received EXCEPT ![bc.conn] = Append(@, bc.msg)]
                                    ELSE received
               /\ IF bc.stale \/ Cardinality(Registered(f)) # bc.size
                  THEN /\ runs' = [runs EXCEPT ![r] = Raised(run, "Set changed size during iteration")]
                       /\ loop' = HolderAfterRaise(r, run)
                       /\ UNCHANGED active_connections
                  ELSE LET must == (bc.orig \cap active_connections[f]) \ bc.seen
                           may  == (active_connections[f] \ bc.orig) \ bc.seen
                       IN  \/ /\ \E c \in must \cup may :
                                    runs' = [runs EXCEPT ![r].bc =
                                                [bc EXCEPT !.conn = c, !.seen = @ \cup {c},
                                                           !.failed = failed]]
                              /\ loop' = 0
                              /\ UNCHANGED active_connections
                           \/ /\ must = {}
                              /\ active_connections' = [active_connections EXCEPT ![f] = @ \ failed]
                              /\ runs' = [runs EXCEPT ![r].bc = NoBc, ![r].pc = After(run.pc)]
                              /\ loop' = Holder(r, After(run.pc))
    /\ resp' = NoResp
    /\ UNCHANGED << files, uploads, ws >>


\* ------------------------------------------------------------ FileService
\* A lookup that finds a record for every id.
get_file_record_any(table, f) == TRUE

\* FileService.get_file_record: TRUE when the query finds the record (it is
\* returned), FALSE when it finds none (ValueError is raised).
get_file_record(table, f) == table[f] # NoRecord

\* An update that writes nothing.
update_processing_status_skipped(table, f, status) == table

\* FileService.update_processing_status: record.processing_status = status; commit
update_processing_status(table, f, status) ==
    [table EXCEPT ![f].processing_status = status]

\* The UPDATE a Session.commit of a run issues: only the attributes whose
\* value differs from the one the session loaded are written; after a commit
\* or a rollback every attribute is expired and any assignment is written.
Flush(table, run, status, insights, setInsights) ==
    LET dirtyStatus   == run.expired \/ run.loaded.processing_status # status
        dirtyInsights == setInsights /\ (run.expired \/ run.loaded.insights # insights)
    IN  [table EXCEPT ![run.file_id] =
            [exists            |-> @.exists,
             processing_status |-> IF dirtyStatus THEN status ELSE @.processing_status,
             insights          |-> IF dirtyInsights THEN insights ELSE @.insights]]

\* ---------------------------------------------------------- HTTP endpoints
\* POST /upload, the accepted case of FileService.save_uploaded_file: a new
\* id, the file on disk, the record with processing_status "uploaded".
Upload(f, d) ==
    /\ loop = 0
    /\ files[f] = NoRecord
    /\ files' = [files EXCEPT ![f] = Record("uploaded", Unset)]
    /\ uploads' = [uploads EXCEPT ![f] = d]
    /\ resp' = Resp("upload", 200, "uploaded", 0)
    /\ UNCHANGED << active_connections, ws, received, runs, loop >>

\* A scheduler that takes no task while a run is in flight.
FreeRunExclusive(pool) ==
    IF \E r \in pool : runs[r].pc \notin {"idle", "done", "raised"}
    THEN 0
    ELSE IF \E r \in pool : runs[r].pc = "idle"
         THEN CHOOSE r \in pool : runs[r].pc = "idle" /\ \A q \in pool : runs[q].pc = "idle" => r <= q
         ELSE 0

\* The lowest free background-task slot of pool, or 0.
FreeRun(pool) ==
    IF \E r \in pool : runs[r].pc = "idle"
    THEN CHOOSE r \in pool : runs[r].pc = "idle" /\ \A q \in pool : runs[q].pc = "idle" => r <= q
    ELSE 0

\* POST /process; pool bounds the number of tasks the model lets it start.
\* ok = FALSE: the storage raises something else than ValueError, in the
\* lookup (with or without a record) or in the update, and line 39 answers
\* 500 with nothing written.
process_file(f, pool) ==
    /\ loop = 0
    /\ FreeRun(pool) # 0
    /\ \E ok \in BOOLEAN :
          IF ~ok
          THEN /\ resp' = Resp("process", 500, "Internal server error", 0)
               /\ UNCHANGED << files, runs >>
          ELSE IF ~get_file_record(files, f)
          THEN /\ resp' = Resp("process", 404, "File not found", 0)
               /\ UNCHANGED << files, runs >>
          ELSE /\ files' = update_processing_status(files, f, "processing")
               /\ runs' = [runs EXCEPT ![FreeRun(pool)] =
                              [IdleRun EXCEPT !.pc = "scheduled", !.file_id = f]]
               /\ resp' = Resp("process", 200, "processing", 0)
    /\ UNCHANGED << uploads, active_connections, ws, received, loop >>

\* GET /insights; ok = FALSE: anything but ValueError is raised (the storage
\* fails) and lines 41-42 answer 500.
get_insights(f) ==
    /\ loop = 0
    /\ \E ok \in BOOLEAN :
          resp' = IF ~ok
                  THEN Resp("insights", 500, "Internal server error", 0)
                  ELSE IF files[f] = NoRecord
                  THEN Resp("insights", 404, "File not found", 0)
                  ELSE IF files[f].processing_status = "completed"
                       THEN IF files[f].insights.list # << >>
                            THEN Resp("insights", 200, "InsightResponse",
                                      Len(files[f].insights.list))
                            ELSE Resp("insights", 200, "No insights generated", 0)
                       ELSE Resp("insights", 200, files[f].processing_status, 0)
    /\ UNCHANGED << files, uploads, active_connections, ws, received, runs, loop >>

\* GET /status; ok = FALSE: anything but ValueError is raised (the storage
\* fails) and lines 62-63 answer 500.
get_file_status(f) ==
    /\ loop = 0
    /\ \E ok \in BOOLEAN :
          resp' = IF ~ok
                  THEN Resp("status", 500, "Internal server error", 0)
                  ELSE IF files[f] = NoRecord
                  THEN Resp("status", 404, "File not found", 0)
                  ELSE Resp("status", 200, files[f].processing_status, 0)
    /\ UNCHANGED << files, uploads, active_connections, ws, received, runs, loop >>

\* ------------------------------------- generate_insights_with_progress
\* A start that does not test what db.get returned.
FirstLabelUnchecked(record) == "L45"

\* Lines 32 and 43: "if not file_record" leads to the not-found broadcast,
\* else the try block is entered.
FirstLabel(record) == IF record = NoRecord THEN "L34" ELSE "L45"

\* Lines 27-32: the background task starts; db.get loads the record into the
\* run's own session, or raises outside the try block.
RunStart(r) ==
    /\ loop = 0
    /\ runs[r].pc = "scheduled"
    /\ \E ok \in BOOLEAN :
        IF ok
        THEN /\ runs' = [runs EXCEPT ![r].loaded = files[runs[r].file_id],
                                     ![r].pc = FirstLabel(files[runs[r].file_id])]
             /\ loop' = r
        ELSE /\ runs' = [runs EXCEPT ![r].pc = "raised", ![r].exc = "db.get failed"]
             /\ loop' = 0
    /\ resp' = NoResp
    /\ UNCHANGED << files, uploads, active_connections, ws, received >>

\* Line 59: parse_file(file_record.filepath), then await asyncio.sleep(0.5)
RunParse(r) ==
    /\ loop \in {0, r}
    /\ runs[r].pc = "L59"
    /\ \E ok \in BOOLEAN :
        IF ok
        THEN /\ runs' = [runs EXCEPT ![r].df = uploads[runs[r].file_id], ![r].pc = "L63"]
             /\ loop' = Holder(r, "L63")
        ELSE /\ runs' = [runs EXCEPT ![r] = Raised(runs[r], "Failed to parse file")]
             /\ loop' = HolderAfterRaise(r, runs[r])
    /\ resp' = NoResp
    /\ UNCHANGED << files, uploads, active_connections, ws, received >>

StageLabels == {"L80", "L98", "L109", "L120"}

StageName(label) ==
    CASE label = "L80" -> "overview" [] label = "L98" -> "statistical"
      [] label = "L109" -> "pattern" [] label = "L120" -> "quality"

StageOutput(label, df) ==
    CASE label = "L80"  -> _generate_overview_insights(df)
      [] label = "L98"  -> _generate_statistical_insights(df)
      [] label = "L109" -> _generate_pattern_insights(df)
      [] label = "L120" -> _generate_quality_insights(df)

AfterStage(label) ==
    CASE label = "L80" -> "L82" [] label = "L98" -> "L102"
      [] label = "L109" -> "L113" [] label = "L120" -> "L124"

\* Lines 80-81, 98-99, 109-110, 120-121: after the stage's sleep, the
\* analyser runs and insights.extend(...) takes its output, or it raises.
RunStage(r) ==
    /\ loop = 0
    /\ runs[r].pc \in StageLabels
    /\ \E ok \in BOOLEAN :
        IF ok
        THEN runs' = [runs EXCEPT ![r].insights = @ \o StageOutput(runs[r].pc, runs[r].df),
                                  ![r].pc = AfterStage(runs[r].pc)]
        ELSE runs' = [runs EXCEPT ![r] = Raised(runs[r], StageName(runs[r].pc))]
    /\ loop' = r
    /\ resp' = NoResp
    /\ UNCHANGED << files, uploads, active_connections, ws, received >>

\* Lines 124-131: filter, sort and trim; assign insights and "completed";
\* db.commit(), which may raise (the session is then rolled back).
RunPersist(r) ==
    /\ loop = r
    /\ runs[r].pc = "L124"
    /\ LET final == FinalInsights(runs[r].insights)
       IN  \E ok \in BOOLEAN :
           IF ok
           THEN /\ files' = Flush(files, runs[r], "completed", List(final), TRUE)
                /\ runs' = [runs EXCEPT ![r].final = final, ![r].expired = TRUE, ![r].pc = "L134"]
           ELSE /\ runs' = [runs EXCEPT ![r] = [Raised(runs[r], "commit failed")
                                                  EXCEPT !.final = final, !.expired = TRUE]]
                /\ UNCHANGED files
    /\ loop' = r
    /\ resp' = NoResp
    /\ UNCHANGED << uploads, active_connections, ws, received >>

\* Lines 140-141 (and the finally clause): return final_insights
RunReturn(r) ==
    /\ loop = r
    /\ runs[r].pc = "L141"
    /\ runs' = [runs EXCEPT ![r].pc = "done", ![r].result = List(runs[r].final)]
    /\ loop' = 0
    /\ resp' = NoResp
    /\ UNCHANGED << files, uploads, active_connections, ws, received >>

\* The failure handler puts the record back to uploaded.
FailedStatusReset == "uploaded"

\* Line 146: file_record.processing_status = "failed"
FailedStatus == "failed"

\* Lines 145-149: mark failure; a failing commit is swallowed.
RunMarkFailed(r) ==
    /\ loop = r
    /\ runs[r].pc = "L146"
    /\ \E ok \in BOOLEAN :
        files' = IF ok THEN Flush(files, runs[r], FailedStatus, Unset, FALSE) ELSE files
    /\ runs' = [runs EXCEPT ![r].expired = TRUE, ![r].pc = "L151"]
    /\ loop' = r
    /\ resp' = NoResp
    /\ UNCHANGED << uploads, active_connections, ws, received >>

\* Lines 40-41 and 157-158 (and the finally clause): return []
RunReturnEmpty(r) ==
    /\ loop = r
    /\ runs[r].pc \in {"L41", "L158"}
    /\ runs' = [runs EXCEPT ![r].pc = "done", ![r].result = List(<< >>)]
    /\ loop' = 0
    /\ resp' = NoResp
    /\ UNCHANGED << files, uploads, active_connections, ws, received >>

\* ------------------------------------------------------------ specification
\* One run, two clients: the run, the hub and the websocket endpoint.
Next ==
    \/ \E f \in FileIds : Upload(f, DfTest)
    \/ \E f \in FileIds : process_file(f, 1..MaxRuns)
    \/ \E w \in 1..NumSockets, f \in FileIds : WsOpen(w, f)
    \/ \E w \in 1..NumSockets : ClientDrop(w)
    \/ \E w \in 1..NumSockets : WsConnect(w)
    \/ \E w \in 1..NumSockets : WsAck(w)
    \/ \E w \in 1..NumSockets : WsPing(w)
    \/ \E w \in 1..NumSockets : WsPong(w)
    \/ \E w \in 1..NumSockets : WsDisconnect(w)
    \/ \E w \in 1..NumSockets : WsError(w)
    \/ \E r \in 1..MaxRuns : RunStart(r)
    \/ \E r \in 1..MaxRuns : BroadcastCall(r)
    \/ \E r \in 1..MaxRuns : BroadcastStep(r)
    \/ \E r \in 1..MaxRuns : RunParse(r)
    \/ \E r \in 1..MaxRuns : RunStage(r)
    \/ \E r \in 1..MaxRuns : RunPersist(r)
    \/ \E r \in 1..MaxRuns : RunReturn(r)
    \/ \E r \in 1..MaxRuns : RunMarkFailed(r)
    \/ \E r \in 1..MaxRuns : RunReturnEmpty(r)

Spec == Init /\ [][Next]_vars

\* Overlapping runs, one client (not a recorded one) and the HTTP endpoints
\* that read the record.
NextApi ==
    \/ \E f \in FileIds, d \in Datasets : Upload(f, d)
    \/ \E f \in FileIds : process_file(f, 1..ApiRuns)
    \/ \E f \in FileIds : get_insights(f)
    \/ \E f \in FileIds : get_file_status(f)
    \/ \E w \in ApiSocketIds, f \in FileIds : WsOpen(w, f)
    \/ \E w \in ApiSocketIds : ClientDrop(w)
    \/ \E w \in ApiSocketIds : WsConnect(w)
    \/ \E w \in ApiSocketIds : WsAck(w)
    \/ \E w \in ApiSocketIds : WsPing(w)
    \/ \E w \in ApiSocketIds : WsPong(w)
    \/ \E w \in ApiSocketIds : WsDisconnect(w)
    \/ \E w \in ApiSocketIds : WsError(w)
    \/ \E r \in 1..ApiRuns : RunStart(r)
    \/ \E r \in 1..ApiRuns : BroadcastCall(r)
    \/ \E r \in 1..ApiRuns : BroadcastStep(r)
    \/ \E r \in 1..ApiRuns : RunParse(r)
    \/ \E r \in 1..ApiRuns : RunStage(r)
    \/ \E r \in 1..ApiRuns : RunPersist(r)
    \/ \E r \in 1..ApiRuns : RunReturn(r)
    \/ \E r \in 1..ApiRuns : RunMarkFailed(r)
    \/ \E r \in 1..ApiRuns : RunReturnEmpty(r)

SpecApi == Init /\ [][NextApi]_vars

\* The selection policy of lines 124-126 on any list of gathered insights: the
\* run stands before line 124 with a list of up to SelLen insights whose
\* confidences lie below, at and above min_confidence_score. col numbers the
\* insights in the order of their emission.
SelConfidences == {min_confidence_score - 5, min_confidence_score, 95}

SelInputs ==
    UNION { { [i \in 1..n |-> Insight("Insight", i, c[i], "statistical")] :
                c \in [1..n -> SelConfidences] } : n \in 0..SelLen }

InitSelect ==
    /\ files = [f \in FileIds |-> Record("processing", Unset)]
    /\ uploads = [f \in FileIds |-> DfTest]
    /\ active_connections = << >>
    /\ ws = [w \in Sockets |-> [pc |-> "new", file_id |-> None, alive |-> FALSE, pings |-> 0]]
    /\ received = [w \in Observed |-> << >>]
    /\ \E gathered \in SelInputs :
          runs = [r \in RunIds |->
                    IF r = 1
                    THEN [IdleRun EXCEPT !.pc = "L124", !.file_id = "f1",
                                         !.loaded = Record("processing", Unset),
                                         !.df = DfTest, !.insights = gathered]
                    ELSE IdleRun]
    /\ loop = 1
    /\ resp = NoResp

NextSelect ==
    \/ RunPersist(1)
    \/ BroadcastCall(1)
    \/ RunReturn(1)
    \/ RunMarkFailed(1)
    \/ RunReturnEmpty(1)

SpecSelect == InitSelect /\ [][NextSelect]_vars

\* The quality stage on datasets without numeric column: 10, 20, 80 or 100
\* rows, up to QCols columns with missing-value counts around the 10% mark
\* (9 of 80 is 11.25%, a tie of the one-decimal rounding), and up to two
\* duplicate rows. The run stands before line 120, the earlier
\* stages done.
QualityRows == {10, 20, 80, 100}

QualityMissing == {0, 1, 2, 3, 9, 10, 11, 15}

QualityInputs ==
    { [rows |-> n, missing |-> m, highvar |-> << >>, outliers |-> << >>,
       corr |-> << >>, dupes |-> d] :
        n \in QualityRows,
        m \in UNION { [1..k -> QualityMissing] : k \in 1..QCols },
        d \in 0..2 }

InitQuality ==
    /\ files = [f \in FileIds |-> Record("processing", Unset)]
    /\ active_connections = << >>
    /\ ws = [w \in Sockets |-> [pc |-> "new", file_id |-> None, alive |-> FALSE, pings |-> 0]]
    /\ received = [w \in Observed |-> << >>]
    /\ \E df \in QualityInputs :
          /\ \A c \in 1..Len(df.missing) : df.missing[c] <= df.rows
          /\ uploads = [f \in FileIds |-> df]
          /\ runs = [r \in RunIds |->
                       IF r = 1
                       THEN [IdleRun EXCEPT !.pc = "L120", !.file_id = "f1",
                                            !.loaded = Record("processing", Unset),
                                            !.df = df,
                                            !.insights = _generate_overview_insights(df)
                                                      \o _generate_statistical_insights(df)
                                                      \o _generate_pattern_insights(df)]
                       ELSE IdleRun]
    /\ loop = 0
    /\ resp = NoResp

NextQuality ==
    \/ RunStage(1)
    \/ RunPersist(1)
    \/ BroadcastCall(1)
    \/ RunReturn(1)
    \/ RunMarkFailed(1)
    \/ RunReturnEmpty(1)

SpecQuality == InitQuality /\ [][NextQuality]_vars

\* generate_insights_with_progress(file_id) called for any subject id, with
\* or without a record (process_file calls it for ids it has validated).
Invoke(r, f) ==
    /\ loop = 0
    /\ runs[r].pc = "idle"
    /\ runs' = [runs EXCEPT ![r] = [IdleRun EXCEPT !.pc = "scheduled", !.file_id = f]]
    /\ resp' = NoResp
    /\ UNCHANGED << files, uploads, active_connections, ws, received, loop >>

NextDirect ==
    \/ \E f \in FileIds : Upload(f, DfTest)
    \/ \E r \in 1..MaxRuns, f \in FileIds : Invoke(r, f)
    \/ \E w \in ApiSocketIds, f \in FileIds : WsOpen(w, f)
    \/ \E w \in ApiSocketIds : ClientDrop(w)
    \/ \E w \in ApiSocketIds : WsConnect(w)
    \/ \E w \in ApiSocketIds : WsAck(w)
    \/ \E w \in ApiSocketIds : WsPing(w)
    \/ \E w \in ApiSocketIds : WsPong(w)
    \/ \E w \in ApiSocketIds : WsDisconnect(w)
    \/ \E w \in ApiSocketIds : WsError(w)
    \/ \E r \in 1..MaxRuns : RunStart(r)
    \/ \E r \in 1..MaxRuns : BroadcastCall(r)
    \/ \E r \in 1..MaxRuns : BroadcastStep(r)
    \/ \E r \in 1..MaxRuns : RunParse(r)
    \/ \E r \in 1..MaxRuns : RunStage(r)
    \/ \E r \in 1..MaxRuns : RunPersist(r)
    \/ \E r \in 1..MaxRuns : RunReturn(r)
    \/ \E r \in 1..MaxRuns : RunMarkFailed(r)
    \/ \E r \in 1..MaxRuns : RunReturnEmpty(r)

SpecDirect == Init /\ [][NextDirect]_vars


\* ------------------------------------------------------------------ claims
Terminal == {"completed", "failed"}

Status(f) == files[f].processing_status

Range(s) == {s[i] : i \in 1..Len(s)}

\* Run r was started for an existing subject and is over.
Ended(r) == runs[r].pc \in {"done", "raised"} /\ runs[r].loaded.exists

\* C1: when a run for an existing subject has ended, the persisted
\* processing_status of its subject is completed or failed. (Spec starts one
\* run per subject, so nothing re-triggers the subject behind the run.)
C1_EndedRunIsTerminal ==
    \A r \in RunIds : Ended(r) => Status(runs[r].file_id) \in Terminal

\* C2: generate_insights_with_progress never raises to its caller.
C2_RunNeverRaises ==
    \A r \in RunIds : runs[r].pc # "raised"

\* C3: while a run sends a terminal event (insights_complete, or the failed
\* status_update of the failure handler), the matching terminal status is the
\* persisted status of the subject.
C3_TerminalPersistedBeforeBroadcast ==
    \A r \in RunIds :
        /\ (runs[r].pc = "L134" /\ runs[r].bc # NoBc) => Status(runs[r].file_id) = "completed"
        /\ (runs[r].pc = "L151" /\ runs[r].bc # NoBc) => Status(runs[r].file_id) = "failed"

AllowedChange(a, b) ==
    \/ a = b
    \/ << a, b >> \in { << "uploaded", "processing" >>, << "processing", "completed" >>,
                       << "processing", "failed" >>, << "completed", "processing" >>,
                       << "failed", "processing" >> }

\* C4: a record starts as uploaded and its processing_status changes only
\* along uploaded->processing, processing->completed, processing->failed and
\* completed/failed->processing.
C4_StatusStateMachine ==
    [][\A f \in FileIds :
          /\ (~files[f].exists /\ files'[f].exists) => files'[f].processing_status = "uploaded"
          /\ files[f].exists => AllowedChange(files[f].processing_status,
                                              files'[f].processing_status)]_vars

\* C5: a completed or failed status changes only to processing, and only in
\* a step of process_file; no run and no read endpoint moves it back.
C5_TerminalLeftOnlyByProcessFile ==
    [][\A f \in FileIds :
          (Status(f) \in Terminal /\ files'[f].processing_status \notin Terminal)
              => /\ files'[f].processing_status = "processing"
                 /\ process_file(f, 1..ApiRuns)]_vars

\* C5 witness: a run has completed its subject, and process_file has just put
\* the subject back to processing and scheduled the next run.
C5_Witness ==
    \E r1, r2 \in RunIds :
        /\ runs[r1].pc = "done" /\ runs[r1].result.list # << >>
        /\ runs[r2].pc = "scheduled" /\ runs[r2].file_id = runs[r1].file_id
        /\ Status(runs[r1].file_id) = "processing"
        /\ resp = Resp("process", 200, "processing", 0)

\* C6: insights is set only if processing_status is completed.
C6_InsightsOnlyWhenCompleted ==
    \A f \in FileIds :
        (files[f].exists /\ Status(f) # "completed") => files[f].insights = Unset

\* The insight_progress events of run r in a client's log, in order.
RECURSIVE ProgressOf(_, _)
ProgressOf(log, r) ==
    IF log = << >> THEN << >>
    ELSE (IF Head(log).type = "insight_progress" /\ Head(log).run = r
          THEN << Head(log) >> ELSE << >>) \o ProgressOf(Tail(log), r)

\* The events of run r in a client's log, in order.
RECURSIVE EventsOf(_, _)
EventsOf(log, r) ==
    IF log = << >> THEN << >>
    ELSE (IF Head(log).run = r THEN << Head(log) >> ELSE << >>) \o EventsOf(Tail(log), r)

\* C7: the current_step_num values a subscriber sees for one run are strictly
\* increasing, at most total_steps, and total_steps is 6 in each of them.
C7_StepsStrictlyIncreasing ==
    \A w \in Observed, r \in RunIds :
        LET p == ProgressOf(received[w], r)
        IN  /\ \A i \in 1..Len(p) : p[i].total_steps = 6 /\ p[i].current_step_num <= p[i].total_steps
            /\ \A i, j \in 1..Len(p) : i < j => p[i].current_step_num < p[j].current_step_num

IsTerminalEvent(m) ==
    \/ m.type = "insights_complete"
    \/ m.type = "status_update" /\ m.status = "failed"

\* C8: a subscriber sees the events of a run in the order the run produced
\* them: the stage progress events in stage order, and nothing of the run
\* after its terminal event.
C8_OrderedAndTerminalLast ==
    \A w \in Observed, r \in RunIds :
        LET e == EventsOf(received[w], r)
        IN  \A i, j \in 1..Len(e) : i < j =>
                /\ ~IsTerminalEvent(e[i])
                /\ (e[i].type = "insight_progress" /\ e[j].type = "insight_progress")
                        => e[i].current_step_num <= e[j].current_step_num
                /\ e[j].type = "status_update" => e[j].status = "failed"

\* C9: when a broadcast is over, a subscriber that was registered when it
\* began, is still registered and whose deliveries succeed has the message.
C9_RegisteredSubscriberGetsEvent ==
    [][\A r \in RunIds, w \in Observed :
          ( /\ runs[r].bc # NoBc /\ runs'[r].bc = NoBc
            /\ w \in runs[r].bc.orig
            /\ w \in Registered(runs[r].bc.msg.file_id)
            /\ SendOk(w) )
          => runs[r].bc.msg \in Range(received'[w])]_vars

\* C10: a connect or disconnect that interleaves with a broadcast never makes
\* the broadcast raise, and the registry holds only handles that connected
\* and did not disconnect.
C10_BroadcastSurvivesInterleaving ==
    /\ \A r \in RunIds : runs[r].exc # "Set changed size during iteration"
    /\ \A f \in DOMAIN active_connections :
          \A w \in active_connections[f] : ws[w].pc \in {"acking", "receiving", "ponging", "aborted"}

\* The subscriber set of f in the dict conns.
RegisteredIn(conns, f) == IF f \in DOMAIN conns THEN conns[f] ELSE {}

\* C11: when a broadcast in which a delivery failed is over, it has returned
\* (the run is at its next statement), every subscriber it started with has
\* been attempted, no failed handle is in the subject's set and every handle
\* whose delivery succeeded still is.
C11_FailedDeliveryIsolated ==
    [][\A r \in RunIds :
          LET bc     == runs[r].bc
              failed == bc.failed \cup (IF SendOk(bc.conn) THEN {} ELSE {bc.conn})
              after  == RegisteredIn(active_connections', bc.msg.file_id)
          IN  (bc # NoBc /\ runs'[r].bc = NoBc /\ failed # {})
              => /\ runs'[r].pc = After(runs[r].pc)
                 /\ bc.orig \subseteq bc.seen
                 /\ after \cap failed = {}
                 /\ bc.seen \ failed \subseteq after]_vars

\* C12: no subject id in active_connections maps to an empty subscriber set.
C12_NoEmptySubscriberSet ==
    \A f \in DOMAIN active_connections : active_connections[f] # {}

\* C13: a broadcast for a subject with no subscriber returns at once (the
\* run is at its next statement), delivers nothing and leaves
\* active_connections as it was.
C13_NoListenerBroadcastIsNoOp ==
    [][\A r \in RunIds :
          ( /\ runs[r].pc \in BroadcastLabels /\ runs[r].bc = NoBc
            /\ Registered(runs[r].file_id) = {}
            /\ runs'[r] # runs[r] )
          => /\ runs'[r] = [runs[r] EXCEPT !.pc = After(runs[r].pc)]
             /\ active_connections' = active_connections
             /\ received' = received]_vars

\* C13 witness: a run went through all its broadcasts and returned its
\* insights while no client had ever opened a socket.
C13_Witness ==
    \E r \in RunIds :
        /\ runs[r].pc = "done" /\ runs[r].result.list # << >>
        /\ \A w \in Sockets : ws[w].pc = "new"
        /\ active_connections = << >>

\* C14: in every registry the hub reaches, for every handle and subject id
\* (known or not), disconnect applied twice gives what it gives applied once,
\* every other subscriber of every subject stays registered, and a subject id
\* without entry leaves the registry as it is.
C14_DisconnectIdempotent ==
    \A w \in Sockets, f \in FileIds \cup {None} :
        LET once == disconnect(active_connections, w, f)
        IN  /\ disconnect(once, w, f) = once
            /\ \A g \in DOMAIN active_connections : \A v \in active_connections[g] :
                  (v # w \/ g # f) => v \in RegisteredIn(once, g)
            /\ f \notin DOMAIN active_connections => once = active_connections
            /\ w \notin RegisteredIn(once, f)

\* C14 witness: the endpoint of client 1 has called disconnect while client 2
\* is registered for the same subject: a second disconnect of client 1 is a
\* call for a handle that is not registered.
C14_Witness ==
    /\ ws[1].pc = "closed" /\ ws[2].pc = "receiving"
    /\ ws[1].file_id = ws[2].file_id
    /\ Registered(ws[2].file_id) = {2}

\* C15: connect registers the handle under its subject id, and the
\* connection_established event goes to that handle only: the step that
\* sends it appends it once to the log of the connecting client and changes
\* no other log, and no other step delivers such an event.
C15_AckOnlyToNewSubscriber ==
    [][\A w \in 1..NumSockets :
          /\ (ws[w].pc = "accepting" /\ ws'[w].pc = "acking")
                => w \in RegisteredIn(active_connections', ws[w].file_id)
          /\ (ws[w].pc = "acking" /\ ws'[w].pc = "receiving")
                => \A v \in Observed :
                      received'[v] = IF v = w /\ SendOk(w)
                                     THEN Append(received[v], ConnectionEstablished(ws[w].file_id))
                                     ELSE received[v]
          /\ \A v \in Observed :
                ( /\ Len(received'[v]) > Len(received[v])
                  /\ received'[v][Len(received'[v])].type = "connection_established" )
                => ws[v].pc = "acking" /\ ws'[v].pc = "receiving"]_vars

\* C15 witness: clients 1 and 2 are both connected to the same subject and
\* acknowledged; client 1 has its one connection_established event.
C15_Witness ==
    /\ ws[1].pc = "receiving" /\ ws[2].pc = "receiving"
    /\ ws[1].file_id = ws[2].file_id
    /\ Registered(ws[1].file_id) = {1, 2}
    /\ received[1] = << ConnectionEstablished(ws[1].file_id) >>

\* The place of insight x in the list s.
Pos(x, s) == CHOOSE i \in 1..Len(s) : s[i] = x

\* The run has computed final_insights and goes on to report them.
Selected(r) == runs[r].pc \in {"L134", "L141"}

\* C16: in the final list a higher confidence comes first, and insights of
\* equal confidence keep the order in which they were gathered.
C16_RankedStable ==
    \A r \in RunIds : Selected(r) =>
        \A i, j \in 1..Len(runs[r].final) :
            i < j => LET a == runs[r].final[i]
                         b == runs[r].final[j]
                     IN  /\ a.confidence >= b.confidence
                         /\ a.confidence = b.confidence
                               => Pos(a, runs[r].insights) < Pos(b, runs[r].insights)

\* C16 witness: the final list holds two insights of equal confidence and an
\* insight that was gathered after a kept insight of lower confidence.
C16_Witness ==
    \E r \in RunIds :
        /\ Selected(r)
        /\ \E i, j \in 1..Len(runs[r].final) :
              i < j /\ runs[r].final[i].confidence = runs[r].final[j].confidence
        /\ \E i, j \in 1..Len(runs[r].final) :
              /\ runs[r].final[i].confidence > runs[r].final[j].confidence
              /\ Pos(runs[r].final[i], runs[r].insights) > Pos(runs[r].final[j], runs[r].insights)

\* The number of gathered insights of run r at or above the threshold.
Surviving(r) ==
    Cardinality({i \in 1..Len(runs[r].insights) :
                    runs[r].insights[i].confidence >= min_confidence_score})

\* C17: the final list holds no insight below min_confidence_score, its
\* length is min(k, max_insights) for k gathered insights at or above the
\* threshold, and no dropped insight at or above the threshold has a higher
\* confidence than a kept one.
C17_FilteredAndTrimmed ==
    \A r \in RunIds : Selected(r) =>
        /\ \A i \in 1..Len(runs[r].final) : runs[r].final[i].confidence >= min_confidence_score
        /\ Range(runs[r].final) \subseteq Range(runs[r].insights)
        /\ Len(runs[r].final) = Min(Surviving(r), max_insights)
        /\ \A x \in Range(runs[r].insights) \ Range(runs[r].final) :
              x.confidence >= min_confidence_score
                 => \A y \in Range(runs[r].final) : y.confidence >= x.confidence

\* C17 witness: more than max_insights gathered insights are at or above the
\* threshold, one is below it, and one exactly at it is kept.
C17_Witness ==
    \E r \in RunIds :
        /\ Selected(r)
        /\ Surviving(r) > max_insights
        /\ \E x \in Range(runs[r].insights) : x.confidence < min_confidence_score
        /\ \E y \in Range(runs[r].final) : y.confidence = min_confidence_score

\* C18: filter, sort and trim applied to the final list give the final list.
C18_SelectionIdempotent ==
    \A r \in RunIds : Selected(r) => FinalInsights(runs[r].final) = runs[r].final

\* C18 witness: the selection dropped a low insight, reordered the rest, cut
\* the list to max_insights and kept insights of equal confidence.
C18_Witness ==
    \E r \in RunIds :
        /\ Selected(r)
        /\ Len(runs[r].final) = max_insights
        /\ Len(runs[r].insights) > Surviving(r)
        /\ runs[r].final # SubSeq(FilterConfidence(runs[r].insights), 1, max_insights)
        /\ \E i, j \in 1..Len(runs[r].final) :
              i # j /\ runs[r].final[i].confidence = runs[r].final[j].confidence

\* The failure texts of parse_file and of the four analysis stages.
StageFailures == {"Failed to parse file", "overview", "statistical", "pattern", "quality"}

\* C19: a run whose parsing or analysis stage raised goes through the
\* failure handler (the status write, swallowed when it fails, then the
\* broadcast of status_update failed with the failure text) and returns an
\* empty list: it runs no later stage and sends no insights_complete.
C19_StageFailureHandled ==
    [][\A r \in RunIds :
          (runs[r].exc \in StageFailures /\ runs[r].pc \in {"L146", "L151", "L158"})
          => /\ \/ /\ runs'[r].pc \in {"L146", "L151", "L158"}
                   /\ runs'[r].exc = runs[r].exc
                \/ /\ runs'[r].pc = "done"
                   /\ runs'[r].result = List(<< >>)
             /\ runs[r].pc = "L146" => runs'[r].pc \in {"L146", "L151"}
             /\ runs'[r].bc # NoBc
                   => runs'[r].bc.msg = StatusUpdate(runs[r].file_id, "failed", runs[r].exc, r)]_vars

\* C20: when a run has failed and the persisted status is failed, the
\* persisted insights are the ones the record had when the run loaded it.
C20_FailedRunPersistsNoInsights ==
    \A r \in RunIds :
        ( /\ runs[r].pc \in {"L151", "L158", "done", "raised"}
          /\ runs[r].exc # None /\ runs[r].loaded.exists
          /\ Status(runs[r].file_id) = "failed" )
        => files[runs[r].file_id].insights = runs[r].loaded.insights

\* C21: a run that finds no record for its id sends the one status_update
\* failed of line 34 and returns an empty list: it does not enter the try
\* block (no processing update, no progress event) and no step of it writes
\* the table.
C21_NotFoundRun ==
    [][\A r \in RunIds :
          /\ ( /\ runs[r].pc = "scheduled" /\ files[runs[r].file_id] = NoRecord
               /\ runs'[r].pc \notin {"scheduled", "raised"} )
             => runs'[r].pc = "L34" /\ files' = files
          /\ runs[r].pc \in {"L34", "L41"}
             => /\ files' = files
                /\ \/ runs'[r] = runs[r]
                   \/ /\ runs[r].pc = "L34"
                      /\ runs'[r].pc \in {"L34", "L41"}
                      /\ runs'[r].bc # NoBc
                            => runs'[r].bc.msg = StatusUpdate(runs[r].file_id, "failed",
                                                    "File not found; aborting insights", r)
                   \/ /\ runs[r].pc = "L41"
                      /\ runs'[r] = [runs[r] EXCEPT !.pc = "done", !.result = List(<< >>)]]_vars

\* C21 witness: a run called for an id without record has returned the
\* empty list, and there is still no record.
C21_Witness ==
    \E r \in RunIds :
        /\ runs[r].pc = "done" /\ runs[r].result = List(<< >>)
        /\ runs[r].exc = None /\ ~runs[r].loaded.exists
        /\ files[runs[r].file_id] = NoRecord

\* C22: when the commit of line 131 has failed in a run, a subscriber that
\* has followed the run from its start and is still connected has already
\* got the run's insights_complete event.
C22_CompleteSentBeforeWrite ==
    \A r \in RunIds, w \in Observed :
        ( /\ runs[r].exc = "commit failed"
          /\ w \in Registered(runs[r].file_id) /\ SendOk(w)
          /\ \E i \in 1..Len(received[w]) :
                received[w][i].run = r /\ received[w][i].status = "processing" )
        => \E i \in 1..Len(received[w]) :
                received[w][i].run = r /\ received[w][i].type = "insights_complete"

\* C23: once the commit of line 131 has succeeded, the run sends the one
\* insights_complete event, with progress 100 and the number of persisted
\* insights, and returns the list of that length; it does not go to the
\* failure handler.
C23_SuccessfulRunReportsComplete ==
    [][\A r \in RunIds :
          /\ runs[r].pc = "L134"
             => /\ runs'[r].pc \in {"L134", "L141"}
                /\ runs'[r].bc # NoBc
                      => /\ runs'[r].bc.msg.type = "insights_complete"
                         /\ runs'[r].bc.msg.progress = 100
                         /\ runs'[r].bc.msg.insights_count = Len(runs[r].final)
          /\ runs[r].pc = "L141"
             => \/ runs'[r] = runs[r]
                \/ runs'[r] = [runs[r] EXCEPT !.pc = "done", !.result = List(runs[r].final)]]_vars

\* C24: process_file for an id without record answers 404 (500 when the
\* storage itself fails), schedules no run, delivers nothing and leaves
\* table and registry as they are.
C24_ProcessUnknownIs404 ==
    [][\A f \in FileIds :
          (files[f] = NoRecord /\ process_file(f, 1..ApiRuns))
          => /\ \/ resp' = Resp("process", 404, "File not found", 0)
                \/ resp' = Resp("process", 500, "Internal server error", 0)
             /\ runs' = runs /\ files' = files
             /\ received' = received /\ active_connections' = active_connections]_vars

\* C24 witness: process_file has just answered 404 and no run is scheduled.
C24_Witness ==
    /\ resp = Resp("process", 404, "File not found", 0)
    /\ \A f \in FileIds : files[f] = NoRecord
    /\ \A r \in RunIds : runs[r].pc = "idle"

\* Run q is the one run the step schedules, for subject f.
ScheduledOne(q, f) ==
    /\ runs[q].pc = "idle"
    /\ runs'[q].pc = "scheduled" /\ runs'[q].file_id = f
    /\ \A r \in RunIds \ {q} : runs'[r] = runs[r]

\* C25: process_file for a subject with a record, whatever its status,
\* leaves status processing persisted in the step that schedules the run
\* (the run has not taken a step), schedules one run and answers processing;
\* when the storage fails it answers 500 and nothing has changed.
C25_ProcessPersistsProcessing ==
    [][\A f \in FileIds :
          (files[f].exists /\ process_file(f, 1..ApiRuns))
          => \/ /\ resp'.code = 500
                /\ files' = files /\ runs' = runs
             \/ /\ files'[f] = [files[f] EXCEPT !.processing_status = "processing"]
                /\ resp' = Resp("process", 200, "processing", 0)
                /\ \E q \in RunIds : ScheduledOne(q, f)]_vars

\* C25 witness: a run has failed, and process_file has just put its subject
\* back to processing and scheduled the next run.
C25_Witness ==
    \E r1, r2 \in RunIds :
        /\ runs[r1].pc = "done" /\ runs[r1].result = List(<< >>) /\ runs[r1].exc # None
        /\ runs[r2].pc = "scheduled" /\ runs[r2].file_id = runs[r1].file_id
        /\ Status(runs[r1].file_id) = "processing"
        /\ resp = Resp("process", 200, "processing", 0)

\* Run r has been scheduled or started and has not ended.
InFlight(r) == runs[r].pc \notin {"idle", "done", "raised"}

\* C26: while a run for a subject is in flight, process_file for that
\* subject can still be taken, answers processing and schedules a further
\* run (as long as the model has a task slot left).
C26_ProcessNotDeferred ==
    \A f \in FileIds :
        ( /\ files[f].exists /\ loop = 0
          /\ \E r \in 1..ApiRuns : InFlight(r) /\ runs[r].file_id = f
          /\ \E q \in 1..ApiRuns : runs[q].pc = "idle" )
        => ENABLED ( /\ process_file(f, 1..ApiRuns)
                     /\ resp' = Resp("process", 200, "processing", 0)
                     /\ \E q \in RunIds : ScheduledOne(q, f) )

\* C26 witness: two runs for one subject are under way together: one has
\* written the record and sent its last event, the other has written the
\* record and is about to send its insights_complete.
C26_Witness ==
    \E r1, r2 \in RunIds :
        /\ r1 # r2 /\ runs[r1].file_id = runs[r2].file_id
        /\ runs[r1].pc = "L141" /\ runs[r2].pc = "L134"

\* C29: when websocket_endpoint is over for a connection, its handle is in
\* no subscriber set; a connection refused for an unknown id was never
\* registered.
C29_EndpointLeavesNoHandle ==
    \A w \in Sockets :
        ws[w].pc \in {"closed", "aborted", "rejected"}
            => \A f \in DOMAIN active_connections : w \notin active_connections[f]

\* The data_quality insights of a list, in order.
RECURSIVE QualityOf(_)
QualityOf(s) ==
    IF s = << >> THEN << >>
    ELSE (IF Head(s).category = "data_quality" THEN << Head(s) >> ELSE << >>)
         \o QualityOf(Tail(s))

\* C27: after the quality stage, a column has one Missing Data insight
\* (confidence 0.9, reporting the count and the percentage) when its missing
\* count is above 0 and above a tenth of the rows, and none otherwise; there
\* is one duplicate-rows insight (confidence 0.95) when rows are duplicated,
\* and none otherwise.
C27_QualityThresholds ==
    \A r \in RunIds : runs[r].pc = "L124" =>
        LET df == runs[r].df
            q  == QualityOf(runs[r].insights)
            Missing(c) == {i \in 1..Len(q) : q[i].title = "Missing Data" /\ q[i].col = c}
            Dupes == {i \in 1..Len(q) : q[i].title = "Duplicate Rows Detected"}
        IN  /\ \A c \in 1..Len(df.missing) :
                 /\ Cardinality(Missing(c)) =
                        IF df.missing[c] > 0 /\ df.missing[c] * 10 > df.rows THEN 1 ELSE 0
                 /\ \A i \in Missing(c) :
                        /\ q[i].confidence = 90
                        /\ q[i].detail[1] = df.missing[c]
                        \* the printed percentage is a nearest tenth of a percent
                        /\ 2 * Abs(q[i].detail[2] * df.rows - df.missing[c] * 1000) <= df.rows
            /\ Cardinality(Dupes) = IF df.dupes > 0 THEN 1 ELSE 0
            /\ \A i \in Dupes : q[i].confidence = 95
            /\ \A i \in 1..Len(q) : i \in Dupes \/ \E c \in 1..Len(df.missing) : i \in Missing(c)

\* C27 witness: of 100 rows one column misses 10 values and has no insight,
\* another misses 15 and has the one insight that reports 15 and 15.0%, and
\* duplicated rows have their insight.
C27_Witness ==
    \E r \in RunIds :
        /\ runs[r].pc = "L124" /\ runs[r].df.rows = 100
        /\ runs[r].df.missing = << 10, 15 >> /\ runs[r].df.dupes > 0
        /\ \E i \in 1..Len(runs[r].insights) :
              /\ runs[r].insights[i].title = "Missing Data"
              /\ runs[r].insights[i].detail = << 15, 150 >>
        /\ Len(QualityOf(runs[r].insights)) = 2

\* C28: a record with status completed holds a non-empty insight list whose
\* first element is the overview insight (confidence 0.95), and get_insights
\* never answers "No insights generated".
C28_CompletedStartsWithOverview ==
    /\ \A f \in FileIds :
          Status(f) = "completed"
             => /\ files[f].insights.set
                /\ files[f].insights.list # << >>
                /\ files[f].insights.list[1].title = "Dataset Overview"
                /\ files[f].insights.list[1].category = "overview"
                /\ files[f].insights.list[1].confidence = 95
    /\ resp # Resp("insights", 200, "No insights generated", 0)

\* C28 witness: get_insights has just answered with the insights of a
\* completed subject whose list also holds the duplicate-rows insight, of the
\* same confidence as the overview insight.
C28_Witness ==
    \E f \in FileIds :
        /\ Status(f) = "completed"
        /\ resp = Resp("insights", 200, "InsightResponse", Len(files[f].insights.list))
        /\ \E i \in 2..Len(files[f].insights.list) :
              /\ files[f].insights.list[i].title = "Duplicate Rows Detected"
              /\ files[f].insights.list[i].confidence = files[f].insights.list[1].confidence

====
